---- MODULE Spec2Model ----
(***************************************************************************)
(* Model of packages/remix-dev/compiler/utils/tsconfig/tsConfigLoader.ts   *)
(*                                                                         *)
(* A JavaScript string is modelled by the sequence of its "/"-separated    *)
(* segments: "./lib" is <<".", "lib">>, "/p/" is <<"", "p", "">>, "" is    *)
(* <<"">>.  Joining two strings with "/" is then sequence concatenation,   *)
(* and the functions of Node's posix `path` module are computed on the     *)
(* segments as Node computes them on the characters.                       *)
(***************************************************************************)
EXTENDS Integers, Sequences, FiniteSets, TLC

VARIABLES
  files,       \* the file system: absolute path -> text of the file
  cwdArg,      \* the `cwd` argument of loadSync
  pc,          \* position of the current loadSync call
  configPath,  \* loadSync's local `configPath`
  walkRes,     \* what walkForTsConfig returned to resolveConfigPath
  parsed,      \* what parseTsConfig returned to loadSync
  config,      \* loadSync's local `config`, as writeConfigurationDefaults left it
  before,      \* `config` as it was handed to writeConfigurationDefaults
  suggestedActions, \* writeConfigurationDefaults' local list
  requiredActions,  \* writeConfigurationDefaults' local list
  writes,      \* number of fs.writeFileSync calls of the current loadSync call
  fileAtStart, \* text of the located file when the current call began
  result,      \* the TsConfigLoaderResult returned
  loadNo,      \* how many loadSync calls were started
  edits,       \* how many edits the user made to the file
  removed      \* the located file was deleted between locate and parse

vars == <<files, cwdArg, pc, configPath, walkRes, parsed, config, before,
          suggestedActions, requiredActions, writes, fileAtStart, result,
          loadNo, edits, removed>>

----------------------------------------------------------------------------
(* Bounds *)

\* Depth at which the JavaScript engine gives up a recursion with
\* "RangeError: Maximum call stack size exceeded".
MaxStack == 6
\* Number of edits the user makes to tsconfig.json before the first load.
MaxEdits == 1
\* Number of loadSync calls in a row.
MaxLoads == 2

----------------------------------------------------------------------------
(* Strings and Node's posix path functions *)

EmptyStr == <<"">>
Undefined == <<>>          \* the JavaScript `undefined` where a string is expected
ProcCwd == <<"", "p">>     \* process.cwd(), against which relative paths resolve

IsAbsolute(p) == Len(p) > 1 /\ p[1] = ""
TrailingSeparator(p) == Len(p) > 1 /\ p[Len(p)] = ""

RECURSIVE normalizeString(_, _, _, _)
normalizeString(segs, i, res, allowAboveRoot) ==
  IF i > Len(segs) THEN res
  ELSE LET seg == segs[i] IN
    IF seg = "" \/ seg = "." THEN normalizeString(segs, i + 1, res, allowAboveRoot)
    ELSE IF seg = ".." THEN
      IF res # <<>> /\ res[Len(res)] # ".."
        THEN normalizeString(segs, i + 1, SubSeq(res, 1, Len(res) - 1), allowAboveRoot)
      ELSE IF allowAboveRoot
        THEN normalizeString(segs, i + 1, Append(res, ".."), allowAboveRoot)
      ELSE normalizeString(segs, i + 1, res, allowAboveRoot)
    ELSE normalizeString(segs, i + 1, Append(res, seg), allowAboveRoot)

normalize(p) ==
  IF p = EmptyStr THEN <<".">>
  ELSE LET res == normalizeString(p, 1, <<>>, ~IsAbsolute(p)) IN
    IF res = <<>>
      THEN IF IsAbsolute(p) THEN <<"", "">>
           ELSE IF TrailingSeparator(p) THEN <<".", "">> ELSE <<".">>
      ELSE (IF IsAbsolute(p) THEN <<"">> ELSE <<>>) \o res
           \o (IF TrailingSeparator(p) THEN <<"">> ELSE <<>>)

NonEmptyArg(a) == IF a = EmptyStr THEN <<>> ELSE a

join(a, b) ==
  LET joined == NonEmptyArg(a) \o NonEmptyArg(b) IN
  IF joined = <<>> THEN <<".">> ELSE normalize(joined)

join3(a, b, c) ==
  LET joined == NonEmptyArg(a) \o NonEmptyArg(b) \o NonEmptyArg(c) IN
  IF joined = <<>> THEN <<".">> ELSE normalize(joined)

RECURSIVE StripTrailingSlashes(_)
StripTrailingSlashes(p) ==
  IF Len(p) > 1 /\ p[Len(p)] = "" THEN StripTrailingSlashes(SubSeq(p, 1, Len(p) - 1))
  ELSE p

dirname(p) ==
  IF p = EmptyStr THEN <<".">>
  ELSE LET q == StripTrailingSlashes(p) IN
    IF Len(q) = 1 THEN IF p[1] = "" /\ Len(p) > 1 THEN <<"", "">> ELSE <<".">>
    ELSE IF Len(q) = 2 /\ q[1] = "" THEN <<"", "">>
    ELSE IF Len(q) = 3 /\ q[1] = "" /\ q[2] = "" THEN <<"", "", "">>
    ELSE SubSeq(q, 1, Len(q) - 1)

resolve(p) ==
  LET full == IF IsAbsolute(p) THEN p ELSE ProcCwd \o NonEmptyArg(p)
      res == normalizeString(full, 1, <<>>, FALSE)
  IN IF res = <<>> THEN <<"", "">> ELSE <<"">> \o res

existsSync(p) == resolve(p) \in DOMAIN files

isFile(p) == resolve(p) \in DOMAIN files

\* The directories of the file system; fs.statSync throws on a path that is
\* neither a file nor a directory.
Directories ==
  { <<"", "">>, <<"", "p">>, <<"", "p", "app">>, <<"", "p", "cfg">>,
    <<"", "p", "app", "pkg">>, <<"", "p", "app", "node_modules">>,
    <<"", "p", "app", "node_modules", "pkg">> }
isDirectory(p) == resolve(p) \in Directories

----------------------------------------------------------------------------
(* ConfigLocator *)

TsConfigName == <<".", "tsconfig.json">>
JsConfigName == <<".", "jsconfig.json">>

RECURSIVE walkForTsConfig(_, _)
walkForTsConfig(directory, depth) ==
  IF depth > MaxStack THEN [st |-> "overflow", path |-> Undefined]
  ELSE IF existsSync(join(directory, TsConfigName))
    THEN [st |-> "ok", path |-> join(directory, TsConfigName)]
  ELSE IF existsSync(join(directory, JsConfigName))
    THEN [st |-> "ok", path |-> join(directory, JsConfigName)]
  ELSE LET parentDirectory == join(directory, <<"..", "">>) IN
    IF directory = parentDirectory THEN [st |-> "ok", path |-> Undefined]
    ELSE walkForTsConfig(parentDirectory, depth + 1)

resolveConfigPath(cwd) ==
  IF ~isFile(cwd) /\ ~isDirectory(cwd) THEN [st |-> "enoent", path |-> Undefined]
  ELSE IF isFile(cwd) THEN [st |-> "ok", path |-> resolve(cwd)]
  ELSE LET configAbsolutePath == walkForTsConfig(cwd, 1) IN
    IF configAbsolutePath.st # "ok" THEN configAbsolutePath
    ELSE IF configAbsolutePath.path # Undefined
      THEN [st |-> "ok", path |-> resolve(configAbsolutePath.path)]
    ELSE [st |-> "ok", path |-> Undefined]

----------------------------------------------------------------------------
(* Values, objects, texts *)

\* A JSON value: its type and its content (a string by its segments, an
\* array by its elements).
VTrue == [t |-> "boolean", s |-> <<"true">>]
VFalse == [t |-> "boolean", s |-> <<"false">>]
VStr(segs) == [t |-> "string", s |-> segs]
VArr(elems) == [t |-> "array", s |-> elems]
VObj == [t |-> "object", s |-> <<>>]       \* the value of `compilerOptions`
VUndefined == [t |-> "undefined", s |-> <<>>]

\* An object is the sequence of its entries in insertion order.
Entry(k, v) == [k |-> k, v |-> v]
Keys(m) == {m[i].k : i \in DOMAIN m}
Has(m, k) == k \in Keys(m)
Get(m, k) == IF Has(m, k) THEN m[CHOOSE i \in DOMAIN m : m[i].k = k].v ELSE VUndefined
Put(m, k, v) ==
  IF Has(m, k) THEN [i \in DOMAIN m |-> IF m[i].k = k THEN Entry(k, v) ELSE m[i]]
  ELSE Append(m, Entry(k, v))
Without(m, k) == SelectSeq(m, LAMBDA e : e.k # k)

RECURSIVE SpreadFrom(_, _, _)
SpreadFrom(a, b, i) ==
  IF i > Len(b) THEN a ELSE SpreadFrom(Put(a, b[i].k, b[i].v), b, i + 1)
\* {...a, ...b}
Spread(a, b) == SpreadFrom(a, b, 1)

\* A config object: its top-level entries, and the entries of its
\* `compilerOptions` (meaningful when the top level has that key).
\* def = FALSE is the JavaScript `undefined`.
Config(top, co) == [def |-> TRUE, top |-> top, co |-> co]
UndefinedConfig == [def |-> FALSE, top |-> <<>>, co |-> <<>>]
EmptyObject == Config(<<>>, <<>>)
HasCompilerOptions(c) == c.def /\ Has(c.top, "compilerOptions")

\* A text is a sequence of lines; a line has its indentation, a key and a
\* value or a punctuation mark.
Punct(x) == [t |-> "punct", s |-> <<x>>]
Line(ind, k, v) == [ind |-> ind, k |-> k, v |-> v]
BomLine == Line(0, "", Punct("BOM"))
CommentLine == Line(0, "//", Punct("comment"))

RECURSIVE PairLines(_, _, _)
PairLines(m, i, ind) ==
  IF i > Len(m) THEN <<>>
  ELSE <<Line(ind, m[i].k, m[i].v)>> \o PairLines(m, i + 1, ind)

RECURSIVE TopLines(_, _, _)
TopLines(c, i, indent) ==
  IF i > Len(c.top) THEN <<>>
  ELSE LET e == c.top[i] IN
    (IF e.v = VObj
       THEN IF c.co = <<>> THEN <<Line(indent, e.k, Punct("{}"))>>
            ELSE <<Line(indent, e.k, Punct("{"))>>
                 \o PairLines(c.co, 1, 2 * indent)
                 \o <<Line(indent, "", Punct("}"))>>
       ELSE <<Line(indent, e.k, e.v)>>)
    \o TopLines(c, i + 1, indent)

\* JSON.stringify(config, null, indent)
JSONstringify(c, indent) ==
  IF c.top = <<>> THEN <<Line(0, "", Punct("{}"))>>
  ELSE <<Line(0, "", Punct("{"))>> \o TopLines(c, 1, indent) \o <<Line(0, "", Punct("}"))>>

stripBom(text) == IF text # <<>> /\ text[1] = BomLine THEN Tail(text) ELSE text

RECURSIVE ParseLines(_, _, _, _)
ParseLines(text, i, c, inCo) ==
  IF i > Len(text) THEN c
  ELSE LET l == text[i] IN
    IF l.k = "//" THEN ParseLines(text, i + 1, c, inCo)
    ELSE IF l.v = Punct("{") /\ l.k = "" THEN ParseLines(text, i + 1, c, inCo)
    ELSE IF l.v = Punct("{}") /\ l.k = "" THEN ParseLines(text, i + 1, c, inCo)
    ELSE IF l.v = Punct("{")
      THEN ParseLines(text, i + 1, Config(Put(c.top, l.k, VObj), <<>>), TRUE)
    ELSE IF l.v = Punct("{}")
      THEN ParseLines(text, i + 1, Config(Put(c.top, l.k, VObj), <<>>), FALSE)
    ELSE IF l.v = Punct("}") THEN ParseLines(text, i + 1, c, FALSE)
    ELSE IF inCo THEN ParseLines(text, i + 1, Config(c.top, Put(c.co, l.k, l.v)), TRUE)
    ELSE ParseLines(text, i + 1, Config(Put(c.top, l.k, l.v), c.co), FALSE)

\* JSON5.parse(text): indentation and comments carry no meaning
JSON5parse(text) == ParseLines(text, 1, EmptyObject, FALSE)

readFileSync(p) == files[resolve(p)]

----------------------------------------------------------------------------
(* ConfigParser *)

\* The path segments the model knows to contain ".json", and those that
\* contain a dot.
JsonSegs == {"tsconfig.json", "jsconfig.json", "base.json", "missing.json"}
DotSegs == JsonSegs \cup {".", ".."}
IndexOfJson(str) == \E i \in DOMAIN str : str[i] \in JsonSegs
IndexOfDot(str) == \E i \in DOMAIN str : str[i] \in DotSegs
IndexOfSlash(str) == Len(str) > 1

\* a non-empty string is truthy
Truthy(v) == v.t = "string" /\ v.s # EmptyStr

\* lines 114-119: append ".json" when the reference has none
WithJsonExtension(extendedConfig) ==
  IF ~IndexOfJson(extendedConfig)
    THEN [extendedConfig EXCEPT ![Len(extendedConfig)] = @ \o ".json"]
    ELSE extendedConfig

\* A variant of ExtendedConfigPath without the node_modules fallback.
ExtendedConfigPath_DirectOnly(configFilePath, extendedConfig) ==
  join(dirname(configFilePath), extendedConfig)

\* lines 120-132: where the ancestor is looked for
ExtendedConfigPath(configFilePath, extendedConfig) ==
  LET currentDir == dirname(configFilePath)
      extendedConfigPath == join(currentDir, extendedConfig)
  IN IF IndexOfSlash(extendedConfig) /\ IndexOfDot(extendedConfig)
        /\ ~existsSync(extendedConfigPath)
       THEN join3(currentDir, <<"node_modules">>, extendedConfig)
       ELSE extendedConfigPath

\* lines 139-145: base.compilerOptions.baseUrl is rewritten
RebaseBaseUrl(base, extendedConfig) ==
  IF HasCompilerOptions(base) /\ Truthy(Get(base.co, "baseUrl"))
    THEN Config(base.top,
                Put(base.co, "baseUrl",
                    VStr(join(dirname(extendedConfig), Get(base.co, "baseUrl").s))))
    ELSE base

\* A variant of MergeConfigs that spreads the descendant first, so that the
\* ancestor's values win.
MergeConfigs_BaseWins(base, cfg) ==
  Config(Put(Spread(cfg.top, base.top), "compilerOptions", VObj),
         Spread(cfg.co, base.co))

\* A variant of MergeConfigs that leaves the descendant's compilerOptions
\* out of the nested merge.
MergeConfigs_BaseOptionsOnly(base, cfg) ==
  Config(Put(Spread(base.top, cfg.top), "compilerOptions", VObj), base.co)

\* lines 147-154: { ...base, ...config, compilerOptions: { ...base.compilerOptions, ...config.compilerOptions } }
MergeConfigs(base, cfg) ==
  Config(Put(Spread(base.top, cfg.top), "compilerOptions", VObj),
         Spread(base.co, cfg.co))

\* `parseTsConfig(...) || {}`
OrEmptyObject(c) == IF c.def THEN c ELSE EmptyObject

Max(a, b) == IF a > b THEN a ELSE b

\* The result carries, besides the config, the number of nested calls that
\* read a file (depth), and st = "overflow" when the recursion exhausted the
\* stack.
RECURSIVE parseTsConfig(_, _)
parseTsConfig(configFilePath, depth) ==
  IF depth > MaxStack
    THEN [st |-> "overflow", config |-> UndefinedConfig, depth |-> depth]
  ELSE IF ~existsSync(configFilePath)
    THEN [st |-> "ok", config |-> UndefinedConfig, depth |-> depth - 1]
  ELSE LET cfg == JSON5parse(stripBom(readFileSync(configFilePath))) IN
    IF Truthy(Get(cfg.top, "extends"))
      THEN LET extendedConfig == WithJsonExtension(Get(cfg.top, "extends").s)
               sub == parseTsConfig(ExtendedConfigPath(configFilePath, extendedConfig),
                                    depth + 1)
           IN IF sub.st = "overflow" THEN sub
              ELSE [st |-> "ok",
                    config |-> MergeConfigs(
                                 RebaseBaseUrl(OrEmptyObject(sub.config), extendedConfig),
                                 cfg),
                    depth |-> Max(depth, sub.depth)]
      ELSE [st |-> "ok", config |-> cfg, depth |-> depth]

----------------------------------------------------------------------------
(* loadSync, first step: locate *)

NoResult == [tsConfigPath |-> Undefined, baseUrl |-> VUndefined, paths |-> VUndefined]

Locate ==
  /\ pc = "idle"
  /\ loadNo < MaxLoads
  /\ loadNo' = loadNo + 1
  /\ LET r == resolveConfigPath(cwdArg) IN
     /\ walkRes' = IF isFile(cwdArg) THEN [st |-> "ok", path |-> Undefined]
                   ELSE walkForTsConfig(cwdArg, 1)
     /\ configPath' = r.path
     /\ pc' = IF r.st # "ok" THEN "threw"
              ELSE IF r.path = Undefined THEN "done" ELSE "located"
     /\ fileAtStart' = IF r.path # Undefined THEN files[r.path] ELSE <<>>
  /\ result' = NoResult
  /\ parsed' = [st |-> "none", config |-> UndefinedConfig, depth |-> 0]
  /\ config' = UndefinedConfig
  /\ before' = UndefinedConfig
  /\ suggestedActions' = <<>>
  /\ requiredActions' = <<>>
  /\ writes' = 0
  /\ removed' = FALSE
  /\ UNCHANGED <<files, cwdArg, edits>>

\* loadSync, line 54
ParseStep ==
  /\ pc = "located"
  /\ LET r == parseTsConfig(configPath, 1) IN
     /\ parsed' = r
     /\ config' = r.config
     /\ pc' = IF r.st = "overflow" THEN "threw" ELSE "parsed"
  /\ UNCHANGED <<files, cwdArg, configPath, walkRes, before, suggestedActions,
                 requiredActions, writes, fileAtStart, result, loadNo, edits, removed>>

----------------------------------------------------------------------------
(* PolicyTable and DefaultsWriter *)

Suggested(k, v) == [k |-> k, kind |-> "suggested", v |-> v, reason |-> ""]
Required(k, v, reason) == [k |-> k, kind |-> "value", v |-> v, reason |-> reason]

\* in the order of Object.keys (the last reason is written without the
\* backquotes it has in the source)
getDesiredCompilerOptions ==
  << Suggested("target", VStr(<<"ES2019">>)),
     Suggested("lib", VArr(<<"DOM", "DOM.Iterable", "ES2019">>)),
     Suggested("allowJs", VTrue),
     Suggested("strict", VTrue),
     Suggested("baseUrl", VStr(<<".">>)),
     Suggested("forceConsistentCasingInFileNames", VTrue),
     Required("esModuleInterop", VTrue, "requirement for esbuild"),
     Required("isolatedModules", VTrue, "requirement for esbuild"),
     Required("jsx", VStr(<<"react-jsx">>), "requirement for esbuild"),
     Required("moduleResolution", VStr(<<"node">>), "to match esbuild"),
     Required("resolveJsonModule", VTrue, "to match esbuild"),
     Required("noEmit", VTrue, "Remix takes care of building everything in remix build.") >>

DefaultInclude == VArr(<<"remix.env.d.ts", "**/*.ts", "**/*.tsx">>)

SuggestedNote(k, v) == [k |-> k, v |-> v, reason |-> ""]
RequiredNote(k, v, reason) == [k |-> k, v |-> v, reason |-> reason]

\* A TypeError ends the call: nothing after it runs.
Threw(acc) == [acc EXCEPT !.threw = TRUE]

\* lines 212-223.  `optionKey in config` on undefined, and an index into an
\* undefined compilerOptions, throw a TypeError.  optionValue is a local:
\* the suggested value is noted, config is not assigned.
CheckSuggested(acc, check) ==
  IF ~acc.config.def THEN Threw(acc)
  ELSE IF Has(acc.config.top, check.k) THEN acc
  ELSE IF ~HasCompilerOptions(acc.config) THEN Threw(acc)
  ELSE IF Get(acc.config.co, check.k) = VUndefined
    THEN [acc EXCEPT !.suggestedActions = Append(@, SuggestedNote(check.k, check.v))]
  ELSE acc

\* A variant of CheckRequired that notes the change without assigning it.
CheckRequired_NoteOnly(acc, check) ==
  IF ~HasCompilerOptions(acc.config) THEN Threw(acc)
  ELSE IF check.v # Get(acc.config.co, check.k)
    THEN [acc EXCEPT
            !.requiredActions = Append(@, RequiredNote(check.k, check.v, check.reason))]
  ELSE acc

\* lines 224-235
CheckRequired(acc, check) ==
  IF ~HasCompilerOptions(acc.config) THEN Threw(acc)
  ELSE IF check.v # Get(acc.config.co, check.k)
    THEN [acc EXCEPT
            !.config = Config(@.top, Put(@.co, check.k, check.v)),
            !.requiredActions = Append(@, RequiredNote(check.k, check.v, check.reason))]
  ELSE acc

RECURSIVE CheckOptions(_, _, _)
CheckOptions(acc, desired, i) ==
  IF i > Len(desired) \/ acc.threw THEN acc
  ELSE CheckOptions(IF desired[i].kind = "suggested"
                      THEN CheckSuggested(acc, desired[i])
                      ELSE CheckRequired(acc, desired[i]),
                    desired, i + 1)

\* lines 238-245
AddInclude(acc) ==
  IF acc.threw THEN acc
  ELSE IF ~Has(acc.config.top, "include")
    THEN [acc EXCEPT
            !.config = Config(Put(@.top, "include", DefaultInclude), @.co),
            !.suggestedActions = Append(@, SuggestedNote("include", DefaultInclude))]
  ELSE acc

\* A variant of SomethingChanged that asks for both kinds of notes.
SomethingChanged_BothKinds(acc) ==
  ~(Len(acc.suggestedActions) < 1 \/ Len(acc.requiredActions) < 1)

\* lines 247-249, negated
SomethingChanged(acc) ==
  ~(Len(acc.suggestedActions) < 1 /\ Len(acc.requiredActions) < 1)

\* line 251
WrittenText(c) == JSONstringify(c, 2)

writeConfigurationDefaults(cfg) ==
  LET start == [config |-> cfg, suggestedActions |-> <<>>, requiredActions |-> <<>>,
                threw |-> FALSE]
      acc == AddInclude(CheckOptions(start, getDesiredCompilerOptions, 1))
  IN [config |-> acc.config, suggestedActions |-> acc.suggestedActions,
      requiredActions |-> acc.requiredActions, threw |-> acc.threw,
      wrote |-> ~acc.threw /\ SomethingChanged(acc)]

\* loadSync, lines 56-62
Reconcile ==
  /\ pc = "parsed"
  /\ LET r == writeConfigurationDefaults(config) IN
     /\ before' = config
     /\ config' = r.config
     /\ suggestedActions' = r.suggestedActions
     /\ requiredActions' = r.requiredActions
     /\ files' = IF r.wrote THEN (configPath :> WrittenText(r.config)) @@ files ELSE files
     /\ writes' = IF r.wrote THEN 1 ELSE 0
     /\ pc' = IF r.threw THEN "threw" ELSE "done"
     /\ result' = IF r.threw THEN result
                  ELSE [tsConfigPath |-> configPath,
                        baseUrl |-> IF HasCompilerOptions(r.config)
                                      THEN Get(r.config.co, "baseUrl") ELSE VUndefined,
                        paths |-> IF HasCompilerOptions(r.config)
                                    THEN Get(r.config.co, "paths") ELSE VUndefined]
  /\ UNCHANGED <<cwdArg, configPath, walkRes, parsed, fileAtStart, loadNo, edits, removed>>

\* the caller calls loadSync again
CallAgain ==
  /\ pc \in {"done", "threw"}
  /\ loadNo < MaxLoads
  /\ pc' = "idle"
  /\ UNCHANGED <<files, cwdArg, configPath, walkRes, parsed, config, before,
                 suggestedActions, requiredActions, writes, fileAtStart, result,
                 loadNo, edits, removed>>

\* the located file is deleted before it is parsed
RemoveFile ==
  /\ pc = "located"
  /\ configPath \in DOMAIN files
  /\ files' = [p \in DOMAIN files \ {configPath} |-> files[p]]
  /\ removed' = TRUE
  /\ UNCHANGED <<cwdArg, pc, configPath, walkRes, parsed, config, before,
                 suggestedActions, requiredActions, writes, fileAtStart, result,
                 loadNo, edits>>

----------------------------------------------------------------------------
(* Specification of the locator alone: any placement of config files in    *)
(* /, /p and /p/app, any starting directory, absolute or relative.         *)

Root == <<"", "">>
FileIn(dir, name) == IF dir = Root THEN <<"", name>> ELSE Append(dir, name)
ParentOf(dir) == IF Len(dir) <= 2 THEN Root ELSE SubSeq(dir, 1, Len(dir) - 1)

WalkDirs == {Root, <<"", "p">>, <<"", "p", "app">>}
WalkCandidates == {FileIn(d, n) : d \in WalkDirs, n \in {"tsconfig.json", "jsconfig.json"}}
StartDirs == { <<"", "p", "app">>, <<"", "p", "app", "">>, <<"", "p">>, Root,
               <<"app">>, <<"app", "">>, <<".">>, <<".", "app">>, <<"..">> }

InitLocals ==
  /\ pc = "idle"
  /\ configPath = Undefined
  /\ walkRes = [st |-> "ok", path |-> Undefined]
  /\ parsed = [st |-> "none", config |-> UndefinedConfig, depth |-> 0]
  /\ config = UndefinedConfig
  /\ before = UndefinedConfig
  /\ suggestedActions = <<>>
  /\ requiredActions = <<>>
  /\ writes = 0
  /\ fileAtStart = <<>>
  /\ result = NoResult
  /\ loadNo = 0
  /\ edits = 0
  /\ removed = FALSE

InitWalk ==
  /\ \E present \in SUBSET WalkCandidates :
       files = [p \in present |-> <<Line(0, "", Punct("{}"))>>]
  /\ cwdArg \in StartDirs
  /\ InitLocals

SpecWalk == InitWalk /\ [][Locate]_vars

\* The config file the walk is to find from an absolute directory.
RECURSIVE Nearest(_)
Nearest(dir) ==
  IF FileIn(dir, "tsconfig.json") \in DOMAIN files THEN FileIn(dir, "tsconfig.json")
  ELSE IF FileIn(dir, "jsconfig.json") \in DOMAIN files THEN FileIn(dir, "jsconfig.json")
  ELSE IF dir = Root THEN Undefined
  ELSE Nearest(ParentOf(dir))

\* C5: from every starting directory, absolute or relative, the walk
\* terminates and returns the config file of the nearest directory among the
\* start and its ancestors, tsconfig.json before jsconfig.json, and absent
\* when there is none up to the root.
C5_WalkFindsNearest ==
  (pc # "idle" /\ loadNo = 1 /\ ~isFile(cwdArg)) =>
     /\ walkRes.st = "ok"
     /\ (IF walkRes.path = Undefined THEN Undefined ELSE resolve(walkRes.path))
          = Nearest(resolve(cwdArg))

----------------------------------------------------------------------------
(* Specification of the parser alone: /p/app/tsconfig.json and four        *)
(* possible ancestors, each absent or holding one of a few configs.        *)

\* A file as a user writes it: byte-order mark, a comment, 4-space indent.
UserText(c) == <<BomLine, CommentLine>> \o JSONstringify(c, 4)
PlainText(c) == JSONstringify(c, 2)

Obj(ext, hasCo, co, inc) ==
  Config((IF ext = Undefined THEN <<>> ELSE <<Entry("extends", VStr(ext))>>)
         \o (IF hasCo THEN <<Entry("compilerOptions", VObj)>> ELSE <<>>)
         \o (IF inc = Undefined THEN <<>> ELSE <<Entry("include", VArr(inc))>>),
         co)

DescPath == <<"", "p", "app", "tsconfig.json">>
LocalBasePath == <<"", "p", "app", "base.json">>
SharedBasePath == <<"", "p", "cfg", "base.json">>
PackageBasePath == <<"", "p", "app", "node_modules", "pkg", "base.json">>
DirectPkgPath == <<"", "p", "app", "pkg", "base.json">>

DescConfigs ==
  { Obj(ext, co.has, co.m, inc) :
      ext \in { Undefined, <<".", "base">>, <<"..", "cfg", "base.json">>,
                <<"pkg", "base.json">>, <<".", "missing">>, <<".", "tsconfig.json">> },
      co \in { [has |-> FALSE, m |-> <<>>],
               [has |-> TRUE, m |-> <<>>],
               [has |-> TRUE, m |-> <<Entry("baseUrl", VStr(<<".", "src">>))>>],
               [has |-> TRUE, m |-> <<Entry("strict", VTrue)>>],
               [has |-> TRUE, m |-> <<Entry("strict", VTrue),
                                      Entry("baseUrl", VStr(<<".", "src">>))>>] },
      inc \in { Undefined, <<"app">> } }

LocalBaseConfigs ==
  { UndefinedConfig } \cup
  { Obj(ext, co.has, co.m, co.inc) :
      ext \in { Undefined, <<"..", "cfg", "base.json">>, <<".", "tsconfig.json">>,
                <<".", "base">> },
      co \in { [has |-> FALSE, m |-> <<>>, inc |-> Undefined],
               [has |-> TRUE, m |-> <<Entry("strict", VFalse)>>, inc |-> Undefined],
               [has |-> TRUE, inc |-> <<"base">>,
                m |-> <<Entry("baseUrl", VStr(<<".", "lib">>)),
                        Entry("strict", VFalse)>>] } }

SharedBaseConfigs ==
  { UndefinedConfig } \cup
  { Obj(ext, co.has, co.m, Undefined) :
      ext \in { Undefined, <<"..", "app", "base">> },
      co \in { [has |-> FALSE, m |-> <<>>],
               [has |-> TRUE, m |-> <<Entry("baseUrl", VStr(<<"..", "lib">>))>>],
               [has |-> TRUE, m |-> <<Entry("baseUrl", VStr(<<"", "abs">>))>>],
               [has |-> TRUE, m |-> <<Entry("baseUrl", VStr(EmptyStr)),
                                      Entry("target", VStr(<<"ES5">>))>>] } }

PackageBaseConfigs ==
  { UndefinedConfig,
    Obj(Undefined, TRUE, <<Entry("baseUrl", VStr(<<".", "lib">>))>>, Undefined),
    Obj(Undefined, TRUE, <<Entry("strict", VFalse)>>, <<"pkg">>) }

DirectPkgConfigs ==
  { UndefinedConfig,
    Obj(Undefined, TRUE, <<Entry("baseUrl", VStr(<<".", "lib">>))>>, Undefined) }

FileSystem(placed) ==
  LET present == {p \in DOMAIN placed : placed[p].def} IN
  [p \in present |-> IF p = DescPath THEN UserText(placed[p]) ELSE PlainText(placed[p])]

InitParse ==
  /\ \E d \in DescConfigs, b1 \in LocalBaseConfigs, b2 \in SharedBaseConfigs,
        b3 \in PackageBaseConfigs, b4 \in DirectPkgConfigs :
       files = FileSystem((DescPath :> d) @@ (LocalBasePath :> b1)
                          @@ (SharedBasePath :> b2) @@ (PackageBasePath :> b3)
                          @@ (DirectPkgPath :> b4))
  /\ cwdArg = <<"", "p", "app">>
  /\ pc = "located"
  /\ configPath = DescPath
  /\ walkRes = [st |-> "ok", path |-> DescPath]
  /\ parsed = [st |-> "none", config |-> UndefinedConfig, depth |-> 0]
  /\ config = UndefinedConfig
  /\ before = UndefinedConfig
  /\ suggestedActions = <<>>
  /\ requiredActions = <<>>
  /\ writes = 0
  /\ fileAtStart = files[DescPath]
  /\ result = NoResult
  /\ loadNo = 1
  /\ edits = 0
  /\ removed = FALSE

SpecParse == InitParse /\ [][ParseStep]_vars

\* What a file on disk says, and where its `extends` leads.
OwnConfig(file) == JSON5parse(stripBom(files[file]))
Extends(file) == Get(OwnConfig(file).top, "extends")
HasExtends(file) == Truthy(Extends(file))
Reference(file) ==
  LET ref == Extends(file).s IN
  IF ref[Len(ref)] \in JsonSegs THEN ref ELSE [ref EXCEPT ![Len(ref)] = @ \o ".json"]
DirectCandidate(file) == resolve(dirname(file) \o Reference(file))
PackageCandidate(file) == resolve(dirname(file) \o <<"node_modules">> \o Reference(file))
AncestorFile(file) ==
  IF DirectCandidate(file) \in DOMAIN files THEN DirectCandidate(file)
  ELSE IF Len(Reference(file)) > 1 THEN PackageCandidate(file)
  ELSE DirectCandidate(file)

\* The extends chain from a file: the existing files reached, and whether a
\* file is reached twice.
RECURSIVE ChainFrom(_, _)
ChainFrom(file, seen) ==
  IF file \notin DOMAIN files THEN [paths |-> <<>>, cyclic |-> FALSE]
  ELSE IF file \in seen THEN [paths |-> <<>>, cyclic |-> TRUE]
  ELSE IF ~HasExtends(file) THEN [paths |-> <<file>>, cyclic |-> FALSE]
  ELSE LET rest == ChainFrom(AncestorFile(file), seen \cup {file}) IN
       [paths |-> <<file>> \o rest.paths, cyclic |-> rest.cyclic]

ParseActed == pc \in {"parsed", "threw"} /\ parsed.st # "none"

\* C10: parse terminates on every finite acyclic extends chain, with
\* recursion depth equal to the chain length; on a cyclic chain of existing
\* files the recursion is unbounded and parse returns no config.
C10_DepthIsChainLength ==
  ParseActed =>
    LET chain == ChainFrom(configPath, {}) IN
    IF chain.cyclic THEN parsed.st = "overflow" /\ pc = "threw" /\ ~config.def
    ELSE parsed.st = "ok" /\ pc = "parsed" /\ parsed.depth = Len(chain.paths)

\* a chain of three files, parsed to its end
C10_Witness ==
  /\ ParseActed
  /\ ~ChainFrom(configPath, {}).cyclic
  /\ Len(ChainFrom(configPath, {}).paths) = 3
  /\ parsed.depth = 3

\* The directory a baseUrl denotes when read from the config file `file`.
DirectoryDenoted(file, baseUrl) ==
  LET full == IF IsAbsolute(baseUrl) THEN baseUrl
              ELSE dirname(file) \o NonEmptyArg(baseUrl)
      res == normalizeString(full, 1, <<>>, FALSE)
  IN IF res = <<>> THEN Root ELSE <<"">> \o res

DefinesBaseUrl(file) == Has(OwnConfig(file).co, "baseUrl")

\* The ancestors of the chain that define baseUrl themselves, nearest first.
DefiningAncestors(chain) ==
  SelectSeq(Tail(chain.paths), LAMBDA f : DefinesBaseUrl(f))

InheritsBaseUrl ==
  /\ pc = "parsed"
  /\ parsed.st = "ok"
  /\ config.def
  /\ HasExtends(configPath)
  /\ ~DefinesBaseUrl(configPath)
  /\ DefiningAncestors(ChainFrom(configPath, {})) # <<>>

\* C6: when the descendant defines no baseUrl, the resolved baseUrl read
\* from the descendant's directory denotes the directory that the nearest
\* defining ancestor's baseUrl denotes from that ancestor's directory,
\* whether the ancestor was found directly or under node_modules.
C6_RebasedBaseUrlDenotesSameDirectory ==
  InheritsBaseUrl =>
    LET ancestor == Head(DefiningAncestors(ChainFrom(configPath, {}))) IN
    /\ Has(config.co, "baseUrl")
    /\ DirectoryDenoted(configPath, Get(config.co, "baseUrl").s)
         = DirectoryDenoted(ancestor, Get(OwnConfig(ancestor).co, "baseUrl").s)

\* The descendant extends a file that exists: the ancestor as parsed, and
\* the value a compilerOptions key of the ancestor has after rebasing.
ExtendsExisting ==
  /\ pc = "parsed"
  /\ parsed.st = "ok"
  /\ HasExtends(configPath)
  /\ AncestorFile(configPath) \in DOMAIN files

ParsedAncestor == parseTsConfig(AncestorFile(configPath), 2).config

InheritedOption(k) ==
  LET v == Get(ParsedAncestor.co, k) IN
  IF k = "baseUrl" /\ v.t = "string" /\ v.s # EmptyStr
    THEN VStr(join(dirname(Reference(configPath)), v.s))
    ELSE v

MergedValues ==
  LET own == OwnConfig(configPath) anc == ParsedAncestor IN
  /\ \A k \in Keys(own.top) : Get(config.top, k) = Get(own.top, k)
  /\ \A k \in Keys(anc.top) \ Keys(own.top) : Get(config.top, k) = Get(anc.top, k)
  /\ Keys(config.co) = Keys(anc.co) \cup Keys(own.co)
  /\ \A k \in Keys(own.co) : Get(config.co, k) = Get(own.co, k)
  /\ \A k \in Keys(anc.co) \ Keys(own.co) : Get(config.co, k) = InheritedOption(k)

ExtendsNothing ==
  /\ pc \in {"parsed", "threw"}
  /\ parsed.st # "none"
  /\ HasExtends(configPath)
  /\ DirectCandidate(configPath) \notin DOMAIN files
  /\ PackageCandidate(configPath) \notin DOMAIN files

\* C9: a config whose extends reference leads to no existing file parses
\* without error as if the ancestor were {}: the descendant's top-level and
\* compilerOptions keys keep their values and no key of another file appears.
C9_MissingAncestorIsEmpty ==
  ExtendsNothing =>
    LET own == OwnConfig(configPath) IN
    /\ pc = "parsed" /\ parsed.st = "ok" /\ config.def
    /\ \A k \in Keys(own.top) : Get(config.top, k) = Get(own.top, k)
    /\ config.co = own.co
    /\ Keys(config.top) \subseteq Keys(own.top) \cup {"compilerOptions"}

C9_Witness ==
  /\ ExtendsNothing
  /\ pc = "parsed"
  /\ Keys(config.co) = {"strict", "baseUrl"}
  /\ Has(config.top, "include")
  /\ PackageBasePath \in DOMAIN files
  /\ SharedBasePath \in DOMAIN files

----------------------------------------------------------------------------
(* Specification of loadSync: the user edits /p/tsconfig.json, loadSync     *)
(* runs on it, and runs again.                                             *)

MainPath == <<"", "p", "tsconfig.json">>
MainBasePath == <<"", "p", "base.json">>

VNumber(n) == [t |-> "number", s |-> <<n>>]
VNull == [t |-> "null", s |-> <<>>]

\* A config that needs no change.
SatisfyingConfig ==
  Obj(Undefined, TRUE,
      << Entry("target", VStr(<<"ES2019">>)),
         Entry("lib", VArr(<<"DOM", "DOM.Iterable", "ES2019">>)),
         Entry("allowJs", VTrue),
         Entry("strict", VFalse),
         Entry("baseUrl", VStr(<<".", "src">>)),
         Entry("forceConsistentCasingInFileNames", VTrue),
         Entry("esModuleInterop", VTrue),
         Entry("isolatedModules", VTrue),
         Entry("jsx", VStr(<<"react-jsx">>)),
         Entry("moduleResolution", VStr(<<"node">>)),
         Entry("resolveJsonModule", VTrue),
         Entry("noEmit", VTrue) >>,
      <<"app">>)

ExtendingConfig ==
  Obj(<<".", "base">>, TRUE, <<Entry("jsx", VStr(<<"react-jsx">>))>>, Undefined)

MainBaseConfig ==
  Obj(Undefined, TRUE,
      << Entry("strict", VFalse), Entry("baseUrl", VStr(<<".", "lib">>)),
         Entry("esModuleInterop", VFalse) >>,
      Undefined)

Templates ==
  { EmptyObject, Obj(Undefined, TRUE, <<>>, Undefined), SatisfyingConfig, ExtendingConfig }

\* The values a user gives an option: the one of the policy table, and
\* another one, of the same type or not.
OtherValue ==
  [ target |-> VStr(<<"ES5">>), lib |-> VArr(<<"ES5">>), allowJs |-> VFalse,
    strict |-> VFalse, baseUrl |-> VStr(<<".", "src">>),
    forceConsistentCasingInFileNames |-> VFalse,
    esModuleInterop |-> VFalse, isolatedModules |-> VStr(<<"true">>),
    jsx |-> VStr(<<"preserve">>), moduleResolution |-> VStr(<<"classic">>),
    resolveJsonModule |-> VNumber("1"), noEmit |-> VNull ]

CanEdit == pc = "idle" /\ loadNo = 0 /\ edits < MaxEdits /\ MainPath \in DOMAIN files

Rewrite(c) ==
  /\ c # JSON5parse(stripBom(files[MainPath]))
  /\ files' = [files EXCEPT ![MainPath] = UserText(c)]
  /\ edits' = edits + 1
  /\ UNCHANGED <<cwdArg, pc, configPath, walkRes, parsed, config, before,
                 suggestedActions, requiredActions, writes, fileAtStart, result,
                 loadNo, removed>>

UserSetsOption ==
  /\ CanEdit
  /\ \E i \in DOMAIN getDesiredCompilerOptions :
       LET k == getDesiredCompilerOptions[i].k
           c == JSON5parse(stripBom(files[MainPath]))
       IN \E v \in {getDesiredCompilerOptions[i].v, OtherValue[k]} :
            Rewrite(Config(Put(c.top, "compilerOptions", VObj), Put(c.co, k, v)))

UserDeletesOption ==
  /\ CanEdit
  /\ LET c == JSON5parse(stripBom(files[MainPath])) IN
     \E k \in Keys(c.co) : Rewrite(Config(c.top, Without(c.co, k)))

UserDeletesCompilerOptions ==
  /\ CanEdit
  /\ LET c == JSON5parse(stripBom(files[MainPath])) IN
     Rewrite(Config(Without(c.top, "compilerOptions"), <<>>))

UserSetsInclude ==
  /\ CanEdit
  /\ LET c == JSON5parse(stripBom(files[MainPath])) IN
     Rewrite(Config(Put(c.top, "include", VArr(<<"app">>)), c.co))

UserDeletesInclude ==
  /\ CanEdit
  /\ LET c == JSON5parse(stripBom(files[MainPath])) IN
     Rewrite(Config(Without(c.top, "include"), c.co))

\* an option written at the top level of the file instead of in compilerOptions
UserMisplacesOption ==
  /\ CanEdit
  /\ LET c == JSON5parse(stripBom(files[MainPath])) IN
     Rewrite(Config(Put(c.top, "strict", VTrue), c.co))

Init ==
  /\ \E t \in Templates :
       files = (MainPath :> UserText(t)) @@ (MainBasePath :> PlainText(MainBaseConfig))
  /\ cwdArg \in { <<"", "p">>, MainPath }
  /\ InitLocals

Next ==
  \/ UserSetsOption
  \/ UserDeletesOption
  \/ UserDeletesCompilerOptions
  \/ UserSetsInclude
  \/ UserDeletesInclude
  \/ UserMisplacesOption
  \/ Locate
  \/ RemoveFile
  \/ ParseStep
  \/ Reconcile
  \/ CallAgain

Spec == Init /\ [][Next]_vars

\* The policy table as documented: what each option is to be.
SuggestedPolicy ==
  [ target |-> VStr(<<"ES2019">>),
    lib |-> VArr(<<"DOM", "DOM.Iterable", "ES2019">>),
    allowJs |-> VTrue,
    strict |-> VTrue,
    baseUrl |-> VStr(<<".">>),
    forceConsistentCasingInFileNames |-> VTrue ]

RequiredPolicy ==
  [ esModuleInterop |-> [v |-> VTrue, reason |-> "requirement for esbuild"],
    isolatedModules |-> [v |-> VTrue, reason |-> "requirement for esbuild"],
    jsx |-> [v |-> VStr(<<"react-jsx">>), reason |-> "requirement for esbuild"],
    moduleResolution |-> [v |-> VStr(<<"node">>), reason |-> "to match esbuild"],
    resolveJsonModule |-> [v |-> VTrue, reason |-> "to match esbuild"],
    noEmit |-> [v |-> VTrue,
                reason |-> "Remix takes care of building everything in remix build."] ]

Range(seq) == {seq[i] : i \in DOMAIN seq}

\* writeConfigurationDefaults was called in the current loadSync call, and
\* returned or threw.
ReconcileActed ==
  /\ pc \in {"done", "threw"}
  /\ parsed.st = "ok"

ReconcileReturned == ReconcileActed /\ pc = "done"

NoteCount == Len(suggestedActions) + Len(requiredActions)

\* C1: a second reconcile, on the config re-read from the file the first
\* one left, records no note, writes nothing and leaves the file as it was.
C1_SecondReconcileIsNoOp ==
  (ReconcileActed /\ loadNo >= 2) =>
    /\ suggestedActions = <<>>
    /\ requiredActions = <<>>
    /\ writes = 0
    /\ (configPath \in DOMAIN files => files[configPath] = fileAtStart)

\* C2: every suggested option that compilerOptions lacks (a missing
\* compilerOptions included) has the suggested value after reconcile, in
\* memory and in the file written, with a suggestion note; one that has a
\* value keeps it.
C2_SuggestedDefaultsApplied ==
  (ReconcileActed /\ before.def) =>
    /\ pc = "done"
    /\ \A k \in DOMAIN SuggestedPolicy :
         IF Get(before.co, k) = VUndefined
           THEN /\ Get(config.co, k) = SuggestedPolicy[k]
                /\ SuggestedNote(k, SuggestedPolicy[k]) \in Range(suggestedActions)
                /\ configPath \in DOMAIN files
                /\ Get(JSON5parse(stripBom(files[configPath])).co, k) = SuggestedPolicy[k]
           ELSE Get(config.co, k) = Get(before.co, k)

\* C3: for a config with a compilerOptions mapping, reconcile returns with
\* every required option at its required value, and a mandatory-change note
\* with the documented reason for exactly the options that differed before.
C3_RequiredOptionsEnforced ==
  (ReconcileActed /\ HasCompilerOptions(before)) =>
    /\ pc = "done"
    /\ \A k \in DOMAIN RequiredPolicy :
         /\ Get(config.co, k) = RequiredPolicy[k].v
         /\ RequiredNote(k, RequiredPolicy[k].v, RequiredPolicy[k].reason)
              \in Range(requiredActions)
            <=> Get(before.co, k) # RequiredPolicy[k].v
    /\ Len(requiredActions)
         = Cardinality({k \in DOMAIN RequiredPolicy : Get(before.co, k) # RequiredPolicy[k].v})

C3_Witness ==
  /\ ReconcileReturned
  /\ Get(before.co, "isolatedModules") = VStr(<<"true">>)
  /\ Get(config.co, "isolatedModules") = VTrue
  /\ Len(requiredActions) = 1

SatisfiesPolicy(c) ==
  /\ HasCompilerOptions(c)
  /\ \A k \in DOMAIN SuggestedPolicy : Has(c.co, k)
  /\ \A k \in DOMAIN RequiredPolicy : Get(c.co, k) = RequiredPolicy[k].v
  /\ Has(c.top, "include")

\* Strict JSON indented by two spaces: no byte-order mark, no comment, the
\* braces of the document at column 0, its entries at 2, those of
\* compilerOptions at 4.
RECURSIVE TwoSpaceIndented(_, _, _)
TwoSpaceIndented(text, i, level) ==
  IF i > Len(text) THEN level = 0
  ELSE LET l == text[i] IN
    /\ l # BomLine
    /\ l.k # "//"
    /\ IF l.v = Punct("{") THEN l.ind = 2 * level /\ TwoSpaceIndented(text, i + 1, level + 1)
       ELSE IF l.v = Punct("}")
         THEN level > 0 /\ l.ind = 2 * (level - 1) /\ TwoSpaceIndented(text, i + 1, level - 1)
       ELSE l.ind = 2 * level /\ TwoSpaceIndented(text, i + 1, level)

\* C4: reconcile writes the file exactly when it recorded a note: once, the
\* mutated config as 2-space JSON; with no note the file and the config in
\* memory stay as they were, and a config that satisfies the policy and has
\* include yields no note.
C4_WritesIffNotes ==
  ReconcileActed =>
    /\ writes <= 1
    /\ writes = 1 <=> NoteCount > 0
    /\ writes = 1 =>
         /\ configPath \in DOMAIN files
         /\ JSON5parse(files[configPath]) = config
         /\ TwoSpaceIndented(files[configPath], 1, 0)
    /\ writes = 0 =>
         /\ configPath \in DOMAIN files => files[configPath] = fileAtStart
         /\ config = before
    /\ SatisfiesPolicy(before) => NoteCount = 0

C4_Witness ==
  /\ ReconcileReturned
  /\ writes = 1
  /\ Len(requiredActions) = 0
  /\ Len(suggestedActions) = 1
  /\ files[configPath] # fileAtStart

\* C8: when the located file is gone by the time parse runs, parse returns
\* absent and load still returns a result: reconcile raises nothing.
C8_RemovedFileIsTolerated ==
  removed =>
    /\ parsed.st = "ok" => ~parsed.config.def
    /\ pc # "threw"
    /\ pc = "done" => result.tsConfigPath = configPath

====
